---- MODULE Spec2Model ----
(***************************************************************************)
(* The data pipeline of streamlit_dashboard.py: one run of the script from *)
(* the uploaded table to the tables it shows.  The script is a straight    *)
(* line of stages; pc is the stage the run has reached.                     *)
(*                                                                         *)
(* Timestamps are whole minutes counted from a Monday 00:00, so the        *)
(* "Call Date" of a timestamp is ts \div 1440 (a day number) and           *)
(* total_seconds()/60 of a difference is the difference itself.  A float   *)
(* cell is NaN or a number in a one-field record that names its unit:      *)
(* Minutes(m) for an idle time, Quarters(q) for threshold_75, which is     *)
(* kept in quarters of a call (0.75 * m is stored as 3 * m) so that it     *)
(* stays an integer.                                                       *)
(***************************************************************************)
EXTENDS Integers, Sequences, FiniteSets, TLC

VARIABLES
    csv,              \* the uploaded file's rows, as read_csv returns them
    df,               \* the script's variable df
    threshold_75,     \* the script's threshold_75; Unset before line 52
    summary_by_agent, \* the script's summary_by_agent
    agent_filter,     \* the sidebar's selections
    reason_filter,
    date_filter,
    daily,            \* tab 1's daily table
    weekly,           \* tab 1's weekly table
    lb,               \* tab 2's leaderboard
    under,            \* tab 2's underperformer rows
    under_msg,        \* what tab 2 shows under "Underperformers"
    summary_display,  \* tab 2's detailed summary
    pc                \* the stage reached

vars == <<csv, df, threshold_75, summary_by_agent, agent_filter, reason_filter,
          date_filter, daily, weekly, lb, under, under_msg, summary_display, pc>>

NaN == [nan |-> TRUE]
Minutes(m) == [mins |-> m]
Quarters(q) == [quarters |-> q]
Unset == [unset |-> TRUE]

\* An empty "New patient?" cell.  read_csv reads it as NaN; it is kept as a
\* string here as the column's other cells are strings.
Missing == "<NA>"

Outlier == "Kim Villafuerte"
TeamLead == "Zayra Lopez"

\* Agent names in the order Python compares them (the order sort_values and
\* groupby use).
AgentOrder == <<"Ana Cruz", "Ben Diaz", "Kim Villafuerte", "Zayra Lopez">>

NameRank(a) == CHOOSE i \in 1..Len(AgentOrder) : AgentOrder[i] = a

\* The most rows an upload holds.
MaxRows == 10

\* The sample table the uploads are cut from, in file order.  Rows of one
\* agent are out of time order, two of Kim's rows share a timestamp, reasons
\* carry the spellings and the padding the script standardizes, and the
\* "New patient?" cell is Yes, No or missing.
SampleRows == <<
    [agent |-> "Kim Villafuerte", ts |-> 1980, reason |-> "Follow Up",  newPatient |-> "Yes"],
    [agent |-> "Ana Cruz",        ts |-> 540,  reason |-> " Billing ",  newPatient |-> "No"],
    [agent |-> "Zayra Lopez",     ts |-> 600,  reason |-> "Follow-up",  newPatient |-> Missing],
    [agent |-> "Kim Villafuerte", ts |-> 540,  reason |-> "Billing",    newPatient |-> "No"],
    [agent |-> "Ben Diaz",        ts |-> 1985, reason |-> "Follow Up ", newPatient |-> "Yes"],
    [agent |-> "Ana Cruz",        ts |-> 550,  reason |-> "Follow-up",  newPatient |-> "Yes"],
    [agent |-> "Kim Villafuerte", ts |-> 1980, reason |-> "Billing",    newPatient |-> "Yes"],
    [agent |-> "Ben Diaz",        ts |-> 545,  reason |-> "Billing",    newPatient |-> "No"],
    [agent |-> "Zayra Lopez",     ts |-> 2040, reason |-> "Billing",    newPatient |-> "Yes"],
    [agent |-> "Ana Cruz",        ts |-> 1990, reason |-> "Billing",    newPatient |-> Missing],
    [agent |-> "Ana Cruz",        ts |-> 530,  reason |-> "Follow-up",  newPatient |-> "No"] >>

\* The days the sidebar's date input can name: the two days of the sample
\* table and the day after them.
FilterDays == {0, 1, 2}

----------------------------------------------------------------------------
\* Sequence helpers.

RECURSIVE SelectRows(_, _)
\* The rows of s whose positions are in S, in the order of s.
SelectRows(s, S) ==
    IF s = <<>> THEN <<>>
    ELSE LET n == Len(s)
             front == SelectRows(SubSeq(s, 1, n - 1), S)
         IN IF n \in S THEN Append(front, s[n]) ELSE front

Range(s) == {s[i] : i \in 1..Len(s)}

RECURSIVE SeqSum(_)
SeqSum(s) == IF s = <<>> THEN 0 ELSE s[1] + SeqSum(Tail(s))

MaxOf(S) == CHOOSE m \in S : \A x \in S : x <= m

\* The ascending sequence of a finite set of integers.
RECURSIVE Ascending(_)
Ascending(S) ==
    IF S = {} THEN <<>>
    ELSE LET m == MaxOf(S) IN Append(Ascending(S \ {m}), m)

----------------------------------------------------------------------------
\* Line 15: read_csv gives every row the next index, from 0.

ReadCsv(rows) ==
    [i \in 1..Len(rows) |->
        [idx |-> i - 1, agent |-> rows[i].agent, ts |-> rows[i].ts,
         reason |-> rows[i].reason, newPatient |-> rows[i].newPatient]]

\* The state after line 15: an upload of at least one row, cut from the
\* sample table, and nothing computed yet.  date_filter starts as the
\* widget's default of line 76, the empty list.
Init ==
    /\ \E S \in SUBSET (1..Len(SampleRows)) :
          /\ S # {}
          /\ Cardinality(S) <= MaxRows
          /\ csv = ReadCsv(SelectRows(SampleRows, S))
    /\ df = csv
    /\ threshold_75 = Unset
    /\ summary_by_agent = <<>>
    /\ agent_filter = {}
    /\ reason_filter = {}
    /\ date_filter = [kind |-> "list", dates |-> <<>>]
    /\ daily = <<>>
    /\ weekly = <<>>
    /\ lb = <<>>
    /\ under = <<>>
    /\ under_msg = "none"
    /\ summary_display = <<>>
    /\ pc = "loaded"

----------------------------------------------------------------------------
\* Lines 27-33: str.strip() and replace({"Follow Up": "Follow-up"}).

StrStrip(s) ==
    CASE s = " Billing "  -> "Billing"
      [] s = "Follow Up " -> "Follow Up"
      [] OTHER            -> s

ReplaceReason(s) == IF s = "Follow Up" THEN "Follow-up" ELSE s

Standardize ==
    /\ pc = "loaded"
    /\ df' = [i \in 1..Len(df) |->
                [df[i] EXCEPT !.reason = ReplaceReason(StrStrip(df[i].reason))]]
    /\ pc' = "standardized"
    /\ UNCHANGED <<csv, threshold_75, summary_by_agent, agent_filter, reason_filter,
                   date_filter, daily, weekly, lb, under, under_msg, summary_display>>

----------------------------------------------------------------------------
\* Lines 35-44: feature engineering.

\* Line 36: sort_values(["Agent Name", "Timestamp"]) compares the agent
\* names, then the timestamps.
SortKeyLE(r, q) ==
    \/ NameRank(r.agent) < NameRank(q.agent)
    \/ r.agent = q.agent /\ r.ts <= q.ts

RECURSIVE SortValues(_)
\* A sort on two columns is pandas' lexsort, which is stable: a row goes
\* behind every row that does not sort after it.
SortValues(s) ==
    IF s = <<>> THEN <<>>
    ELSE LET n == Len(s)
             front == SortValues(SubSeq(s, 1, n - 1))
             x == s[n]
             k == Cardinality({i \in 1..(n - 1) : SortKeyLE(front[i], x)})
         IN SubSeq(front, 1, k) \o <<x>> \o SubSeq(front, k + 1, n - 1)

\* Line 37: .dt.date.
CallDate(ts) == ts \div 1440

WeekdayNames ==
    <<"Monday", "Tuesday", "Wednesday", "Thursday", "Friday", "Saturday", "Sunday">>

\* Line 38: .dt.day_name().
DayName(ts) == WeekdayNames[(CallDate(ts) % 7) + 1]

\* Line 39: to_period("W") is the Monday-to-Sunday week; start_time is its
\* Monday 00:00.
WeekStart(ts) == (ts \div 10080) * 10080

\* Lines 40-44: groupby("Agent Name")["Timestamp"].diff() in minutes: the
\* difference to the previous row of the same group in the frame's order,
\* NaN for a group's first row.
\* Fault variant: diff() without the groupby, the gap to the row above.
GroupDiff_Ungrouped(s, i) ==
    IF i = 1 THEN NaN ELSE Minutes(s[i].ts - s[i - 1].ts)

GroupDiff(s, i) ==
    LET before == {j \in 1..(i - 1) : s[j].agent = s[i].agent}
    IN IF before = {} THEN NaN ELSE Minutes(s[i].ts - s[MaxOf(before)].ts)

Features ==
    /\ pc = "standardized"
    /\ LET sorted == SortValues(df)
       IN df' = [i \in 1..Len(sorted) |->
                   [idx        |-> sorted[i].idx,
                    agent      |-> sorted[i].agent,
                    ts         |-> sorted[i].ts,
                    reason     |-> sorted[i].reason,
                    newPatient |-> sorted[i].newPatient,
                    callDate   |-> CallDate(sorted[i].ts),
                    dayOfWeek  |-> DayName(sorted[i].ts),
                    weekStart  |-> WeekStart(sorted[i].ts),
                    idle       |-> GroupDiff(sorted, i)]]
    /\ pc' = "enriched"
    /\ UNCHANGED <<csv, threshold_75, summary_by_agent, agent_filter, reason_filter,
                   date_filter, daily, weekly, lb, under, under_msg, summary_display>>

----------------------------------------------------------------------------
\* Lines 46-52: the KPI threshold.

AgentsIn(d) == {d[i].agent : i \in 1..Len(d)}

CountOf(d, a) == Cardinality({i \in 1..Len(d) : d[i].agent = a})

\* Fault variant: value_counts() with the drop left out.
CallCountsExclKim_KeepOutlier(d) == [a \in AgentsIn(d) |-> CountOf(d, a)]

\* Lines 47-51: value_counts() without the outlier's entry.
CallCountsExclKim(d) == [a \in AgentsIn(d) \ {Outlier} |-> CountOf(d, a)]

\* Line 52: 0.75 * max, in quarters; max() of an empty Series is NaN.
Threshold75(counts) ==
    IF DOMAIN counts = {} THEN NaN
    ELSE Quarters(3 * MaxOf({counts[a] : a \in DOMAIN counts}))

KpiThreshold ==
    /\ pc = "enriched"
    /\ threshold_75' = Threshold75(CallCountsExclKim(df))
    /\ pc' = "kpi"
    /\ UNCHANGED <<csv, df, summary_by_agent, agent_filter, reason_filter,
                   date_filter, daily, weekly, lb, under, under_msg, summary_display>>

----------------------------------------------------------------------------
\* Lines 54-67: the summary by agent.

RECURSIVE SortNames(_)
\* groupby sorts its keys: the names of S in Python's order.
SortNames(S) ==
    IF S = {} THEN <<>>
    ELSE LET a == CHOOSE x \in S : \A y \in S : NameRank(y) <= NameRank(x)
         IN Append(SortNames(S \ {a}), a)

AgentRows(d, a) == SelectSeq(d, LAMBDA r : r.agent = a)

\* Line 58: (x == "Yes").sum(); a missing cell is not "Yes".
NewBookings(rows) == Len(SelectSeq(rows, LAMBDA r : r.newPatient = "Yes"))

\* Line 57: mean() skips NaN and is NaN when nothing is left.  The mean is
\* kept as the fraction num/den.
MeanIdle(rows) ==
    LET defined == SelectSeq(rows, LAMBDA r : r.idle # NaN)
        values == [i \in 1..Len(defined) |-> defined[i].idle.mins]
    IN IF defined = <<>> THEN NaN
       ELSE [num |-> SeqSum(values), den |-> Len(values)]

\* Lines 55-59: one row per group, groups in key order.
SummaryByAgent(d) ==
    LET keys == SortNames(AgentsIn(d))
    IN [i \in 1..Len(keys) |->
          [agent        |-> keys[i],
           Total_Calls  |-> Len(AgentRows(d, keys[i])),
           Avg_Idle     |-> MeanIdle(AgentRows(d, keys[i])),
           New_Bookings |-> NewBookings(AgentRows(d, keys[i]))]]

Summarize ==
    /\ pc = "kpi"
    /\ summary_by_agent' = SummaryByAgent(df)
    /\ pc' = "summarized"
    /\ UNCHANGED <<csv, df, threshold_75, agent_filter, reason_filter,
                   date_filter, daily, weekly, lb, under, under_msg, summary_display>>

\* Line 63: round() of a non-negative fraction, halves to the even neighbour.
RoundHalfEven(m) ==
    LET q == m.num \div m.den
        r == m.num % m.den
    IN IF 2 * r < m.den THEN q
       ELSE IF 2 * r > m.den THEN q + 1
       ELSE IF q % 2 = 0 THEN q ELSE q + 1

\* Lines 64-66: astype(int).astype(str) + " mins".
MinsText(m) == ToString(RoundHalfEven(m)) \o " mins"

\* Lines 61-67.  astype(int) raises on a column that holds a NaN ("Cannot
\* convert non-finite values (NA or inf) to integer"): the script stops
\* there and summary_by_agent keeps the numbers of line 59.
FormatAvgIdle ==
    /\ pc = "summarized"
    /\ IF \E i \in 1..Len(summary_by_agent) : summary_by_agent[i].Avg_Idle = NaN
       THEN /\ pc' = "raised"
            /\ UNCHANGED summary_by_agent
       ELSE /\ summary_by_agent' =
                  [i \in 1..Len(summary_by_agent) |->
                     [summary_by_agent[i] EXCEPT
                        !.Avg_Idle = MinsText(summary_by_agent[i].Avg_Idle)]]
            /\ pc' = "formatted"
    /\ UNCHANGED <<csv, df, threshold_75, agent_filter, reason_filter,
                   date_filter, daily, weekly, lb, under, under_msg, summary_display>>

----------------------------------------------------------------------------
\* Lines 72-84: the sidebar filters.

\* Line 76: what the date input hands back: a list or a tuple of up to two
\* days.
DateInputs ==
    [kind : {"list", "tuple"},
     dates : {<<>>} \cup {<<d>> : d \in FilterDays} \cup (FilterDays \X FilterDays)]

\* Lines 78-79.
FilterAgents(d, agents) ==
    IF agents # {} THEN SelectSeq(d, LAMBDA r : r.agent \in agents) ELSE d

\* Lines 80-81.
FilterReasons(d, reasons) ==
    IF reasons # {} THEN SelectSeq(d, LAMBDA r : r.reason \in reasons) ELSE d

\* Lines 82-84.
FilterDates(d, input) ==
    IF input.kind = "list" /\ Len(input.dates) = 2
    THEN SelectSeq(d, LAMBDA r : r.callDate >= input.dates[1]
                                 /\ r.callDate <= input.dates[2])
    ELSE d

\* The selections are options of the frame as it stands at lines 74-75.
Filters ==
    /\ pc = "formatted"
    /\ \E agents \in SUBSET AgentsIn(df),
          reasons \in SUBSET {df[i].reason : i \in 1..Len(df)},
          input \in DateInputs :
          /\ agent_filter' = agents
          /\ reason_filter' = reasons
          /\ date_filter' = input
          /\ df' = FilterDates(FilterReasons(FilterAgents(df, agents), reasons), input)
    /\ pc' = "filtered"
    /\ UNCHANGED <<csv, threshold_75, summary_by_agent, daily, weekly, lb, under,
                   under_msg, summary_display>>

----------------------------------------------------------------------------
\* Lines 89-168: the client view.  Of its tables the daily and the weekly
\* volume are kept; the frame gains the "Booking Type" column.

\* Fault variant: count() of the idle column, which skips NaN, for size().
DailyVolume_CountIdle(d) ==
    LET days == Ascending({d[i].callDate : i \in 1..Len(d)})
    IN [k \in 1..Len(days) |->
          [callDate |-> days[k],
           Calls    |-> Len(SelectSeq(d, LAMBDA r : r.callDate = days[k]
                                                    /\ r.idle # NaN))]]

\* Line 94: groupby("Call Date").size(), keys ascending.
DailyVolume(d) ==
    LET days == Ascending({d[i].callDate : i \in 1..Len(d)})
    IN [k \in 1..Len(days) |->
          [callDate |-> days[k],
           Calls    |-> Len(SelectSeq(d, LAMBDA r : r.callDate = days[k]))]]

\* Line 100: groupby("Week Start").size(), keys ascending.
WeeklyVolume(d) ==
    LET weeks == Ascending({d[i].weekStart : i \in 1..Len(d)})
    IN [k \in 1..Len(weeks) |->
          [weekStart |-> weeks[k],
           Calls     |-> Len(SelectSeq(d, LAMBDA r : r.weekStart = weeks[k]))]]

\* Lines 159-163: fillna("No").map({"Yes": "New", "No": "Established"}).
BookingType(cell) ==
    LET filled == IF cell = Missing THEN "No" ELSE cell
    IN CASE filled = "Yes" -> "New"
         [] filled = "No"  -> "Established"
         [] OTHER          -> Missing

ClientView ==
    /\ pc = "filtered"
    /\ daily' = DailyVolume(df)
    /\ weekly' = WeeklyVolume(df)
    /\ df' = [i \in 1..Len(df) |->
                [idx         |-> df[i].idx,
                 agent       |-> df[i].agent,
                 ts          |-> df[i].ts,
                 reason      |-> df[i].reason,
                 newPatient  |-> df[i].newPatient,
                 callDate    |-> df[i].callDate,
                 dayOfWeek   |-> df[i].dayOfWeek,
                 weekStart   |-> df[i].weekStart,
                 idle        |-> df[i].idle,
                 bookingType |-> BookingType(df[i].newPatient)]]
    /\ pc' = "client"
    /\ UNCHANGED <<csv, threshold_75, summary_by_agent, agent_filter, reason_filter,
                   date_filter, lb, under, under_msg, summary_display>>

----------------------------------------------------------------------------
\* Lines 170-233: the agent view.  Of its tables the leaderboard, the
\* underperformers and the detailed summary are kept.

\* Fault variant: > for >=.
MeetsThreshold_Strict(calls, threshold) ==
    IF threshold = NaN THEN FALSE ELSE 4 * calls > threshold.quarters

\* Line 180: Calls >= threshold_75; a comparison with NaN is False.
MeetsThreshold(calls, threshold) ==
    IF threshold = NaN THEN FALSE ELSE 4 * calls >= threshold.quarters

\* Fault variant: the calls counted over the upload, not the filtered frame.
LeaderboardRows_Unfiltered(d, threshold) ==
    LET keys == SortNames(AgentsIn(d) \ {TeamLead})
    IN [i \in 1..Len(keys) |->
          [agent     |-> keys[i],
           Calls     |-> CountOf(csv, keys[i]),
           New_Books |-> NewBookings(AgentRows(d, keys[i])),
           Meets     |-> MeetsThreshold(CountOf(csv, keys[i]), threshold)]]

\* Lines 175-180: one row per agent of the frame, the team lead's row
\* dropped, each marked against the threshold.
LeaderboardRows(d, threshold) ==
    LET keys == SortNames(AgentsIn(d) \ {TeamLead})
    IN [i \in 1..Len(keys) |->
          [agent     |-> keys[i],
           Calls     |-> Len(AgentRows(d, keys[i])),
           New_Books |-> NewBookings(AgentRows(d, keys[i])),
           Meets     |-> MeetsThreshold(Len(AgentRows(d, keys[i])), threshold)]]

\* Line 181: sort_values("Calls", ascending=False) is a quicksort, which
\* keeps no order among equal counts: any descending arrangement.
DescendingOrders(rows) ==
    {p \in [1..Len(rows) -> 1..Len(rows)] :
        /\ \A i, j \in 1..Len(rows) : i # j => p[i] # p[j]
        /\ \A i \in 1..(Len(rows) - 1) : rows[p[i]].Calls >= rows[p[i + 1]].Calls}

\* Fault variant: rank(method="min"), which repeats a rank on a tie.
Ranked_MinRank(rows, p) ==
    [i \in 1..Len(rows) |->
        [Rank      |-> 1 + Cardinality({j \in 1..Len(rows) :
                                          rows[j].Calls > rows[p[i]].Calls}),
         agent     |-> rows[p[i]].agent,
         Calls     |-> rows[p[i]].Calls,
         New_Books |-> rows[p[i]].New_Books,
         Meets     |-> rows[p[i]].Meets]]

\* Lines 181-182: reset_index(drop=True) and Rank = index + 1.
Ranked(rows, p) ==
    [i \in 1..Len(rows) |->
        [Rank      |-> i,
         agent     |-> rows[p[i]].agent,
         Calls     |-> rows[p[i]].Calls,
         New_Books |-> rows[p[i]].New_Books,
         Meets     |-> rows[p[i]].Meets]]

\* Line 195: lb[~lb["Meets 75%"]].
Underperformers(board) == SelectSeq(board, LAMBDA e : ~e.Meets)

\* Lines 196-199.
UnderMessage(u) == IF u # <<>> THEN "table" ELSE "all_pass"

\* Lines 231-232: the summary of line 55 without the team lead's row.
SummaryDisplay(summary) == SelectSeq(summary, LAMBDA r : r.agent # TeamLead)

AgentView ==
    /\ pc = "client"
    /\ \E p \in DescendingOrders(LeaderboardRows(df, threshold_75)) :
          lb' = Ranked(LeaderboardRows(df, threshold_75), p)
    /\ under' = Underperformers(lb')
    /\ under_msg' = UnderMessage(under')
    /\ summary_display' = SummaryDisplay(summary_by_agent)
    /\ pc' = "done"
    /\ UNCHANGED <<csv, df, threshold_75, summary_by_agent, agent_filter,
                   reason_filter, date_filter, daily, weekly>>

----------------------------------------------------------------------------

Next ==
    \/ Standardize
    \/ Features
    \/ KpiThreshold
    \/ Summarize
    \/ FormatAvgIdle
    \/ Filters
    \/ ClientView
    \/ AgentView

Spec == Init /\ [][Next]_vars

----------------------------------------------------------------------------
\* The properties.  The upload csv is never changed by the run, so what a
\* stage made of "the loaded data" is stated against csv.

UploadCount(a) == Cardinality({i \in 1..Len(csv) : csv[i].agent = a})
UploadAgents == {csv[i].agent : i \in 1..Len(csv)}
FrameCount(a) == Cardinality({i \in 1..Len(df) : df[i].agent = a})
Unfiltered == pc \in {"enriched", "kpi", "summarized", "formatted", "raised"}

\* C1: right after line 52 the threshold is 0.75 times the largest call
\* count among the agents of the frame other than the outlier; the outlier's
\* own count never enters it.  With no other agent it is NaN.
C1_ThresholdExcludesOutlier ==
    pc = "kpi" =>
        LET others == AgentsIn(df) \ {Outlier}
        IN IF others = {} THEN threshold_75 = NaN
           ELSE \E a \in others :
                   /\ \A b \in others : FrameCount(b) <= FrameCount(a)
                   /\ threshold_75 = Quarters(3 * FrameCount(a))

\* The outlier holds more calls than every other agent, and there is one.
C1_Witness ==
    /\ pc = "kpi"
    /\ AgentsIn(df) \ {Outlier} # {}
    /\ \A b \in AgentsIn(df) \ {Outlier} : FrameCount(b) < FrameCount(Outlier)
    /\ threshold_75 = Quarters(6)

\* C2 (as claimed): "all agents pass" is shown only when the leaderboard has
\* an entry and every entry meets the threshold; never for an empty
\* leaderboard.
C2_AllPassNeedsEntries ==
    under_msg = "all_pass" =>
        /\ Len(lb) >= 1
        /\ \A i \in 1..Len(lb) : lb[i].Meets

\* C3 (as claimed): the summary shown after the filters has one row per
\* agent of the filtered frame, and its Total_Calls is that agent's number
\* of filtered rows.
C3_SummaryFollowsFilter ==
    pc = "done" =>
        /\ {summary_display[i].agent : i \in 1..Len(summary_display)} = AgentsIn(df)
        /\ Len(summary_display) = Cardinality(AgentsIn(df))
        /\ \A i \in 1..Len(summary_display) :
              summary_display[i].Total_Calls = FrameCount(summary_display[i].agent)

\* C4: the leaderboard holds exactly the agents of the filtered frame other
\* than the team lead, each once, by call count non-increasing, and its
\* ranks are 1..N in order, ties included.
C4_LeaderboardRanks ==
    pc = "done" =>
        /\ {lb[i].agent : i \in 1..Len(lb)} = AgentsIn(df) \ {TeamLead}
        /\ Len(lb) = Cardinality(AgentsIn(df) \ {TeamLead})
        /\ \A i \in 1..Len(lb) : lb[i].Rank = i
        /\ \A i \in 1..(Len(lb) - 1) : lb[i].Calls >= lb[i + 1].Calls

\* Three ranked agents, two of them tied, with the team lead in the frame.
C4_Witness ==
    /\ pc = "done"
    /\ TeamLead \in AgentsIn(df)
    /\ Len(lb) = 3
    /\ \E i \in 1..2 : lb[i].Calls = lb[i + 1].Calls

\* C5: an entry meets the threshold exactly when its calls are at least the
\* threshold, and the underperformers are exactly the entries that do not.
C5_MeetsThreshold ==
    pc = "done" =>
        /\ \A i \in 1..Len(lb) :
              lb[i].Meets <=>
                 (threshold_75 # NaN /\ 4 * lb[i].Calls >= threshold_75.quarters)
        /\ Range(under) = {lb[i] : i \in {j \in 1..Len(lb) : ~lb[j].Meets}}
        /\ Len(under) = Cardinality(Range(under))

\* One entry sits exactly at the threshold and passes, another fails.
C5_Witness ==
    /\ pc = "done"
    /\ threshold_75 # NaN
    /\ \E i \in 1..Len(lb) :
          4 * lb[i].Calls = threshold_75.quarters /\ lb[i].Meets
    /\ under # <<>>

\* The standardized reason of an uploaded row (lines 28-33).
UploadReason(i) == ReplaceReason(StrStrip(csv[i].reason))

\* C6 (as claimed): the filtered frame holds exactly the uploaded rows that
\* pass every supplied predicate: agent selected (if any is), reason
\* selected (if any is), and start <= Call Date <= end (if two dates are
\* given).
C6_FilterExact ==
    pc = "filtered" =>
        LET dates == date_filter.dates
            keep == {i \in 1..Len(csv) :
                       /\ agent_filter = {} \/ csv[i].agent \in agent_filter
                       /\ reason_filter = {} \/ UploadReason(i) \in reason_filter
                       /\ Len(dates) = 2 =>
                             /\ dates[1] <= CallDate(csv[i].ts)
                             /\ CallDate(csv[i].ts) <= dates[2]}
        IN /\ {df[k].idx : k \in 1..Len(df)} = {csv[i].idx : i \in keep}
           /\ Len(df) = Cardinality(keep)

\* C7: in the enriched frame every agent has exactly one row without an idle
\* time, its earliest; every other row's idle time is the non-negative gap
\* to the agent's own nearest row not after it, and the gaps of an agent add
\* up to the span of its timestamps.
C7_IdleTime ==
    Unfiltered =>
        \A a \in AgentsIn(df) :
            LET R == {i \in 1..Len(df) : df[i].agent = a}
                times == {df[i].ts : i \in R}
                gaps == [i \in 1..Len(df) |->
                           IF df[i].agent = a /\ df[i].idle # NaN
                           THEN df[i].idle.mins ELSE 0]
            IN /\ \E f \in R :
                    /\ df[f].idle = NaN
                    /\ \A i \in R : df[f].ts <= df[i].ts
                    /\ \A i \in R \ {f} :
                          /\ df[i].idle # NaN
                          /\ df[i].idle.mins >= 0
                          /\ \E q \in R \ {i} :
                                /\ df[q].ts <= df[i].ts
                                /\ df[i].idle = Minutes(df[i].ts - df[q].ts)
                                /\ ~ \E m \in R : df[q].ts < df[m].ts
                                                  /\ df[m].ts < df[i].ts
               /\ SeqSum(gaps) = MaxOf(times) - CHOOSE t \in times : \A u \in times : t <= u

\* Two agents whose calls interleave in time, uploaded out of time order, and
\* an agent with two calls at one timestamp.
C7_Witness ==
    /\ pc = "enriched"
    /\ \E i, j \in 1..Len(csv) :
          i < j /\ csv[i].agent = csv[j].agent /\ csv[i].ts > csv[j].ts
    /\ \E i, j, k \in 1..Len(df) :
          /\ df[i].agent = df[j].agent /\ df[k].agent # df[i].agent
          /\ df[i].ts < df[k].ts /\ df[k].ts < df[j].ts
          /\ df[j].idle = Minutes(df[j].ts - df[i].ts)
    /\ \E i \in 1..Len(df) : df[i].idle = Minutes(0)

\* C8: the daily table has one entry per Call Date of the filtered frame, in
\* date order, and its counts add up to the number of filtered rows.
C8_DailyVolume ==
    pc \in {"client", "done"} =>
        /\ {daily[k].callDate : k \in 1..Len(daily)} = {df[i].callDate : i \in 1..Len(df)}
        /\ \A k \in 1..(Len(daily) - 1) : daily[k].callDate < daily[k + 1].callDate
        /\ SeqSum([k \in 1..Len(daily) |-> daily[k].Calls]) = Len(df)

\* A filter removed rows and two days are left.
C8_Witness ==
    /\ pc = "client"
    /\ Len(df) < Len(csv)
    /\ Len(daily) = 2
    /\ daily[1].Calls # daily[2].Calls

\* C9 (as claimed): the summary computation never raises, whatever was
\* loaded.
C9_SummaryNeverRaises == pc # "raised"

\* The threshold the upload gives (lines 47-52 on the unfiltered data).
UploadThreshold ==
    LET others == UploadAgents \ {Outlier}
    IN IF others = {} THEN NaN
       ELSE Quarters(3 * MaxOf({UploadCount(a) : a \in others}))

\* C10: once set, the threshold is never changed, by the filters least of
\* all: whatever the filter, it is the threshold of the upload; and the
\* calls a leaderboard entry is measured by are counted over the filtered
\* frame.
C10_ThresholdFrame ==
    [][ /\ threshold_75 # Unset => threshold_75' = threshold_75
        /\ pc' = "filtered" => threshold_75' = UploadThreshold
        /\ pc' = "done" =>
              \A i \in 1..Len(lb') :
                 /\ lb'[i].Calls = Cardinality({k \in 1..Len(df') :
                                                  df'[k].agent = lb'[i].agent})
                 /\ lb'[i].Meets <=>
                       /\ UploadThreshold # NaN
                       /\ 4 * lb'[i].Calls >= UploadThreshold.quarters
      ]_vars

\* A filter left an agent fewer calls than it had in the upload, and that
\* entry fails a threshold its upload count would have passed.
C10_Witness ==
    /\ pc = "done"
    /\ \E i \in 1..Len(lb) :
          /\ lb[i].Calls < UploadCount(lb[i].agent)
          /\ ~lb[i].Meets
          /\ threshold_75 # NaN
          /\ 4 * UploadCount(lb[i].agent) >= threshold_75.quarters

====
